---- MODULE Spec2Model ----
(***************************************************************************)
(* Kanta MCP server: the tool-call dispatcher (CallToolRequestSchema       *)
(* handler), the four resource tool groups and the remote access component *)
(* (KantaClient.makeRequest), modelled as a state machine.                 *)
(*                                                                         *)
(* JavaScript strings are sequences of one-character strings so that       *)
(* startsWith / includes / the UUID pattern are computed, not assumed.     *)
(* An optional value is a sequence of length at most one: <<>> is          *)
(* undefined, <<v>> is the value v.                                        *)
(***************************************************************************)
EXTENDS Integers, Sequences, FiniteSets, TLC

\* The stub remote component counts the requests it receives; the model
\* stops admitting calls once the counter reaches this bound.
MaxRemoteCalls == 3

\* The customer list the remote API returns has at most this many entries.
MaxCustomers == 3

\* Tool calls the host lets run at the same time.
MaxInFlight == 2

\* Requests the remote API stub accepts while calls run at the same time.
MaxConcurrentRemoteCalls == 2

\* KantaClientOptions.timeout default
DefaultTimeout == 30000

\* getCustomers({ per_page: 100 }) of the customers summary
RosterPageSize == 100

(***************************************************************************)
(* String literals of the source, as character sequences.                  *)
(***************************************************************************)
Lit ==
  [
     get_customers |-> <<"g", "e", "t", "_", "c", "u", "s", "t", "o", "m", "e", "r", "s">>,
     get_customer |-> <<"g", "e", "t", "_", "c", "u", "s", "t", "o", "m", "e", "r">>,
     create_customer |-> <<"c", "r", "e", "a", "t", "e", "_", "c", "u", "s", "t", "o", "m", "e", "r">>,
     update_customer |-> <<"u", "p", "d", "a", "t", "e", "_", "c", "u", "s", "t", "o", "m", "e", "r">>,
     search_customers |-> <<"s", "e", "a", "r", "c", "h", "_", "c", "u", "s", "t", "o", "m", "e", "r", "s">>,
     assign_customers |-> <<"a", "s", "s", "i", "g", "n", "_", "c", "u", "s", "t", "o", "m", "e", "r", "s">>,
     get_customer_risk_summary |-> <<"g", "e", "t", "_", "c", "u", "s", "t", "o", "m", "e", "r", "_", "r", "i", "s", "k", "_", "s", "u", "m", "m", "a", "r", "y">>,
     get_users |-> <<"g", "e", "t", "_", "u", "s", "e", "r", "s">>,
     get_user |-> <<"g", "e", "t", "_", "u", "s", "e", "r">>,
     create_user |-> <<"c", "r", "e", "a", "t", "e", "_", "u", "s", "e", "r">>,
     delete_user |-> <<"d", "e", "l", "e", "t", "e", "_", "u", "s", "e", "r">>,
     get_persons |-> <<"g", "e", "t", "_", "p", "e", "r", "s", "o", "n", "s">>,
     get_person |-> <<"g", "e", "t", "_", "p", "e", "r", "s", "o", "n">>,
     upload_person |-> <<"u", "p", "l", "o", "a", "d", "_", "p", "e", "r", "s", "o", "n">>,
     get_firms |-> <<"g", "e", "t", "_", "f", "i", "r", "m", "s">>,
     get_structure |-> <<"g", "e", "t", "_", "s", "t", "r", "u", "c", "t", "u", "r", "e">>,
     download_file |-> <<"d", "o", "w", "n", "l", "o", "a", "d", "_", "f", "i", "l", "e">>,
     delete_customer |-> <<"d", "e", "l", "e", "t", "e", "_", "c", "u", "s", "t", "o", "m", "e", "r">>,
     get_user_profile |-> <<"g", "e", "t", "_", "u", "s", "e", "r", "_", "p", "r", "o", "f", "i", "l", "e">>,
     foo_bar |-> <<"f", "o", "o", "_", "b", "a", "r">>,
     get_profile |-> <<"g", "e", "t", "_", "p", "r", "o", "f", "i", "l", "e">>,
     customer |-> <<"c", "u", "s", "t", "o", "m", "e", "r">>,
     user |-> <<"u", "s", "e", "r">>,
     person |-> <<"p", "e", "r", "s", "o", "n">>,
     firm |-> <<"f", "i", "r", "m">>,
     structure |-> <<"s", "t", "r", "u", "c", "t", "u", "r", "e">>,
     file |-> <<"f", "i", "l", "e">>,
     HTTP_400 |-> <<"H", "T", "T", "P", " ", "4", "0", "0">>,
     HTTP_401 |-> <<"H", "T", "T", "P", " ", "4", "0", "1">>,
     HTTP_403 |-> <<"H", "T", "T", "P", " ", "4", "0", "3">>,
     HTTP_404 |-> <<"H", "T", "T", "P", " ", "4", "0", "4">>,
     Bad_Request |-> <<"B", "a", "d", " ", "R", "e", "q", "u", "e", "s", "t">>,
     Unauthorized |-> <<"U", "n", "a", "u", "t", "h", "o", "r", "i", "z", "e", "d">>,
     Forbidden |-> <<"F", "o", "r", "b", "i", "d", "d", "e", "n">>,
     Not_Found |-> <<"N", "o", "t", " ", "F", "o", "u", "n", "d">>,
     timeout |-> <<"t", "i", "m", "e", "o", "u", "t">>,
     TIMEOUT |-> <<"T", "I", "M", "E", "O", "U", "T">>,
     HTTP_ |-> <<"H", "T", "T", "P", " ">>,
     ColonSp |-> <<":", " ">>,
     Request_timeout_after_ |-> <<"R", "e", "q", "u", "e", "s", "t", " ", "t", "i", "m", "e", "o", "u", "t", " ", "a", "f", "t", "e", "r", " ">>,
     ms |-> <<"m", "s">>,
     fetch_failed |-> <<"f", "e", "t", "c", "h", " ", "f", "a", "i", "l", "e", "d">>,
     Unexpected_token |-> <<"U", "n", "e", "x", "p", "e", "c", "t", "e", "d", " ", "t", "o", "k", "e", "n">>,
     Outil_client_inconnu |-> <<"O", "u", "t", "i", "l", " ", "c", "l", "i", "e", "n", "t", " ", "i", "n", "c", "o", "n", "n", "u", ":", " ">>,
     Outil_utilisateur_inconnu |-> <<"O", "u", "t", "i", "l", " ", "u", "t", "i", "l", "i", "s", "a", "t", "e", "u", "r", " ", "i", "n", "c", "o", "n", "n", "u", ":", " ">>,
     Outil_personne_inconnu |-> <<"O", "u", "t", "i", "l", " ", "p", "e", "r", "s", "o", "n", "n", "e", " ", "i", "n", "c", "o", "n", "n", "u", ":", " ">>,
     Outil_divers_inconnu |-> <<"O", "u", "t", "i", "l", " ", "d", "i", "v", "e", "r", "s", " ", "i", "n", "c", "o", "n", "n", "u", ":", " ">>,
     oops |-> <<"o", "o", "p", "s">>,
     gateway_timeout |-> <<"g", "a", "t", "e", "w", "a", "y", " ", "t", "i", "m", "e", "o", "u", "t">>,
     IdV4 |-> <<"1", "2", "3", "e", "4", "5", "6", "7", "-", "e", "8", "9", "b", "-", "4", "2", "d", "3", "-", "a", "4", "5", "6", "-", "4", "2", "6", "6", "1", "4", "1", "7", "4", "0", "0", "0">>,
     IdV1 |-> <<"1", "2", "3", "E", "4", "5", "6", "7", "-", "e", "8", "9", "b", "-", "1", "2", "d", "3", "-", "a", "4", "5", "6", "-", "4", "2", "6", "6", "1", "4", "1", "7", "4", "0", "0", "0">>,
     IdNoHyphens |-> <<"1", "2", "3", "e", "4", "5", "6", "7", "e", "8", "9", "b", "4", "2", "d", "3", "a", "4", "5", "6", "4", "2", "6", "6", "1", "4", "1", "7", "4", "0", "0", "0">>,
     IdBadChar |-> <<"1", "2", "3", "e", "4", "5", "6", "7", "-", "e", "8", "9", "b", "-", "4", "2", "d", "3", "-", "a", "4", "5", "6", "-", "4", "2", "6", "6", "1", "4", "1", "7", "4", "0", "0", "g">>,
     IdTooLong |-> <<"1", "2", "3", "e", "4", "5", "6", "7", "-", "e", "8", "9", "b", "-", "4", "2", "d", "3", "-", "a", "4", "5", "6", "-", "4", "2", "6", "6", "1", "4", "1", "7", "4", "0", "0", "0", "0">>,
     IdShort |-> <<"a", "b", "c">>,
     ping |-> <<"p", "i", "n", "g">>,
     Date |-> <<"2", "0", "2", "4", "-", "1", "2", "-", "3", "1">>,
     low |-> <<"l", "o", "w">>,
     medium |-> <<"m", "e", "d", "i", "u", "m">>,
     high |-> <<"h", "i", "g", "h">>,
     not_established |-> <<"n", "o", "t", "_", "e", "s", "t", "a", "b", "l", "i", "s", "h", "e", "d">>,
     Low |-> <<"L", "o", "w">>,
     Medium |-> <<"M", "e", "d", "i", "u", "m">>,
     High |-> <<"H", "i", "g", "h">>,
     standard |-> <<"s", "t", "a", "n", "d", "a", "r", "d">>,
     enhanced |-> <<"e", "n", "h", "a", "n", "c", "e", "d">>,
     Standard |-> <<"S", "t", "a", "n", "d", "a", "r", "d">>,
     Enhanced |-> <<"E", "n", "h", "a", "n", "c", "e", "d">>,
     HIGH |-> <<"H", "I", "G", "H">>,
     UpperCase |-> <<"A", "B", "C", "D", "E", "F", "G", "H", "I", "J", "K", "L", "M", "N", "O", "P", "Q", "R", "S", "T", "U", "V", "W", "X", "Y", "Z">>,
     LowerCase |-> <<"a", "b", "c", "d", "e", "f", "g", "h", "i", "j", "k", "l", "m", "n", "o", "p", "q", "r", "s", "t", "u", "v", "w", "x", "y", "z">>,
     HexChars |-> <<"0", "1", "2", "3", "4", "5", "6", "7", "8", "9", "a", "b", "c", "d", "e", "f", "A", "B", "C", "D", "E", "F">>
  ]

Undefined == <<>>
Some(v) == <<v>>
IsDefined(o) == Len(o) = 1
Get(o) == o[1]

\* String.prototype.startsWith
StartsWith(s, p) == Len(p) <= Len(s) /\ SubSeq(s, 1, Len(p)) = p

\* String.prototype.includes
Includes(s, p) == \E i \in 0..(Len(s) - Len(p)) : SubSeq(s, i + 1, i + Len(p)) = p

\* Number.prototype.toString for the non-negative integers used in messages
RECURSIVE NatToString(_)
NatToString(n) ==
  IF n < 10 THEN <<Lit.HexChars[n + 1]>>
  ELSE NatToString(n \div 10) \o <<Lit.HexChars[(n % 10) + 1]>>

\* A faulty variant: the token is put in upper case.
ToUpperCase(s) ==
  [i \in 1..Len(s) |->
     IF \E k \in 1..26 : Lit.LowerCase[k] = s[i]
     THEN Lit.UpperCase[CHOOSE k \in 1..26 : Lit.LowerCase[k] = s[i]]
     ELSE s[i]]

\* String.prototype.toLowerCase on ASCII text
ToLowerCase(s) ==
  [i \in 1..Len(s) |->
     IF \E k \in 1..26 : Lit.UpperCase[k] = s[i]
     THEN Lit.LowerCase[CHOOSE k \in 1..26 : Lit.UpperCase[k] = s[i]]
     ELSE s[i]]

IsHex(c) == \E i \in 1..Len(Lit.HexChars) : Lit.HexChars[i] = c

\* A faulty variant: only the length and the hyphens are checked.
IsUUIDLayoutOnly(s) ==
  /\ Len(s) = 36
  /\ \A i \in {9, 14, 19, 24} : s[i] = "-"

\* z.string().uuid(): five hyphen-separated groups of 8-4-4-4-12 hex digits
IsUUID(s) ==
  /\ Len(s) = 36
  /\ \A i \in 1..36 :
       IF i \in {9, 14, 19, 24} THEN s[i] = "-" ELSE IsHex(s[i])

(***************************************************************************)
(* Thrown values.  type is the JavaScript class; McpError carries code and *)
(* label (the fixed French prefix of the message, written in ASCII);       *)
(* message is the interpolated text; issues are the ZodError issue paths.  *)
(***************************************************************************)
Err(type, message) ==
  [type |-> type, code |-> "", label |-> "", message |-> message, issues |-> <<>>]

ZodError(issues) ==
  [type |-> "ZodError", code |-> "", label |-> "", message |-> <<>>, issues |-> issues]

McpError(code, label, message, issues) ==
  [type |-> "McpError", code |-> code, label |-> label, message |-> message, issues |-> issues]

\* instanceof Error (McpError and ZodError are tested before it)
IsError(e) == e.type \in {"Error", "TypeError", "SyntaxError", "ZodError", "McpError"}

(***************************************************************************)
(* KantaClient: construction and the request each method hands to          *)
(* makeRequest.                                                            *)
(***************************************************************************)
KantaClient(options) ==
  [apiKey  |-> options.apiKey,
   baseUrl |-> IF IsDefined(options.baseUrl) THEN Get(options.baseUrl)
               ELSE "https://app.kanta.fr/api/v1",
   timeout |-> IF IsDefined(options.timeout) /\ Get(options.timeout) # 0
               THEN Get(options.timeout) ELSE DefaultTimeout]

\* if (params?.x) : undefined and 0 are falsy
Truthy(o) == IsDefined(o) /\ Get(o) # 0

Keep(o) == IF Truthy(o) THEN o ELSE Undefined

\* if (params.company_number) : undefined and the empty string are falsy
KeepString(o) == IF IsDefined(o) /\ Get(o) # "" THEN o ELSE Undefined

NoQuery ==
  [company_number |-> Undefined, company_name |-> Undefined, code |-> Undefined,
   per_page |-> Undefined, page |-> Undefined]

Request(method, path, id, query, body, schema) ==
  [method |-> method, path |-> path, id |-> id, query |-> query,
   body |-> body, schema |-> schema, url |-> Undefined, headers |-> Undefined]

getCustomers(per_page, page) ==
  Request("GET", "/customers", Undefined,
          [NoQuery EXCEPT !.per_page = Keep(per_page), !.page = Keep(page)],
          Undefined, "CustomersList")

getCustomer(id) ==
  Request("GET", "/customers/{id}", Some(id), NoQuery, Undefined, "Customer")

createCustomer(data) ==
  Request("POST", "/customers", Undefined, NoQuery, Some(data), "Customer")

updateCustomer(id, data) ==
  Request("PUT", "/customers/{id}", Some(id), NoQuery, Some(data), "Customer")

searchCustomers(params) ==
  Request("GET", "/customers/search", Undefined,
          [company_number |-> KeepString(params.company_number),
           company_name |-> KeepString(params.company_name),
           code |-> KeepString(params.code),
           per_page |-> Keep(params.per_page), page |-> Keep(params.page)],
          Undefined, "CustomersList")

assignCustomers(data) ==
  Request("POST", "/customers/assignment", Undefined, NoQuery, Some(data), "AnyArray")

getCustomerRiskSummary(id) ==
  Request("GET", "/customers/{id}/risk-summary", Some(id), NoQuery, Undefined, "Any")

getUsers(per_page, page) ==
  Request("GET", "/users", Undefined,
          [NoQuery EXCEPT !.per_page = Keep(per_page), !.page = Keep(page)],
          Undefined, "UsersList")

getUser(id) ==
  Request("GET", "/users/{id}", Some(id), NoQuery, Undefined, "User")

createUser(data) ==
  Request("POST", "/users", Undefined, NoQuery, Some(data), "User")

deleteUser(id) ==
  Request("DELETE", "/users/{id}", Some(id), NoQuery, Undefined, "Deleted")

getPersons(per_page, page) ==
  Request("GET", "/persons", Undefined,
          [NoQuery EXCEPT !.per_page = Keep(per_page), !.page = Keep(page)],
          Undefined, "PersonsList")

getPerson(id) ==
  Request("GET", "/persons/{id}", Some(id), NoQuery, Undefined, "Person")

getFirms(per_page) ==
  Request("GET", "/firms", Undefined,
          [NoQuery EXCEPT !.per_page = Keep(per_page)], Undefined, "FirmList")

getStructure ==
  Request("GET", "/structure", Undefined, NoQuery, Undefined, "Structure")

\* makeRequest, non-2xx branch: new Error(`HTTP ${status}: ${errorText}`)
HttpError(status, errorText) ==
  Err("Error", Lit.HTTP_ \o NatToString(status) \o Lit.ColonSp \o errorText)

\* A faulty variant: the AbortError is re-thrown as it is.
AbortRethrown(timeout) ==
  Err("Error", <<"T", "h", "i", "s", " ", "o", "p", "e", "r", "a", "t", "i", "o", "n",
                 " ", "w", "a", "s", " ", "a", "b", "o", "r", "t", "e", "d">>)

\* makeRequest, catch branch for AbortError
TimeoutError(timeout) ==
  Err("Error", Lit.Request_timeout_after_ \o NatToString(timeout) \o Lit.ms)

\* response.ok
ResponseOk(status) == status >= 200 /\ status <= 299

\* the result of safely parsing a value: accepted with an output, or refused
Accepted(data) == [success |-> TRUE, data |-> data]

Refused == [success |-> FALSE, data |-> <<>>]

RiskLevelEnum ==
  {Lit.low, Lit.medium, Lit.high, Lit.not_established, Lit.Low, Lit.Medium, Lit.High,
   Lit.standard, Lit.enhanced}

\* RiskLevelSchema = z.enum([...]).transform(val => val.toLowerCase())
RiskLevelSchema(val) ==
  IF val \in RiskLevelEnum THEN Accepted(ToLowerCase(val)) ELSE Refused

\* a JSON value that is a string, a number or null
JsString(s) == [type |-> "string", string |-> s, number |-> 0]

JsNumber(n) == [type |-> "number", string |-> <<>>, number |-> n]

JsNullValue == [type |-> "null", string |-> <<>>, number |-> 0]

\* AffectationResourceSchema.id =
\*   z.union([z.string(), z.number()]).transform(val => String(val))
AffectationId(val) ==
  CASE val.type = "string" -> Accepted(val.string)
    [] val.type = "number" -> Accepted(NatToString(val.number))
    [] OTHER -> Refused

CustomerSchemas == {"Customer", "CustomersList"}

\* CustomerResourceSchema on a customer whose other fields are well-formed
CustomerIssues(payload) ==
  (IF RiskLevelSchema(payload.vigilance_level).success THEN <<>> ELSE <<"vigilance_level">>)
  \o (IF AffectationId(payload.affectation_id).success THEN <<>> ELSE <<"affectation_list">>)

\* the validated customer fields schema.parse returns
\* (z.object without .passthrough() or .strict(): a key the schema does not
\* declare is left out of the output and raises no issue)
ParsedCustomer(payload) ==
  [vigilance_level |-> RiskLevelSchema(payload.vigilance_level).data,
   affectation_id |-> AffectationId(payload.affectation_id).data,
   extra |-> FALSE]

(***************************************************************************)
(* schema.parse(data) on the response.  A payload says, for each envelope  *)
(* field, whether the body carries a value of the declared type, and gives *)
(* the vigilance level and the affectation id of the customer in data and  *)
(* whether that customer carries a key the schema does not declare.        *)
(***************************************************************************)
SchemaIssues(schema, payload) ==
  (IF payload.url THEN <<>> ELSE <<"url">>)
  \o (IF payload.object THEN <<>> ELSE <<"object">>)
  \o (IF schema \in {"CustomersList", "UsersList", "PersonsList", "FirmList"}
         /\ ~payload.pagination THEN <<"total_data">> ELSE <<>>)
  \o (IF schema # "Any" /\ ~payload.data THEN <<"data">> ELSE <<>>)
  \o (IF schema \in CustomerSchemas /\ payload.data THEN CustomerIssues(payload) ELSE <<>>)

(***************************************************************************)
(* Resource tool groups.  A handler either throws before any network call  *)
(* (thrown) or reaches makeRequest with one request (issued).              *)
(***************************************************************************)
Throws(e) == [ok |-> FALSE, error |-> e, request |-> Undefined]

Calls(r) == [ok |-> TRUE, error |-> Err("none", <<>>), request |-> Some(r)]

\* A faulty variant: only page is bounded.
PaginationIssuesPageOnly(args) ==
  IF IsDefined(args.page) /\ Get(args.page) < 1 THEN <<"page">> ELSE <<>>

\* z.number().min(1).max(100).optional() / z.number().min(1).optional()
PaginationIssues(args) ==
  (IF IsDefined(args.per_page) /\ (Get(args.per_page) < 1 \/ Get(args.per_page) > 100)
   THEN <<"per_page">> ELSE <<>>)
  \o (IF IsDefined(args.page) /\ Get(args.page) < 1 THEN <<"page">> ELSE <<>>)

\* z.object({ id: z.string().uuid() })
IdIssues(args) ==
  IF IsDefined(args.id) /\ IsUUID(Get(args.id)) THEN <<>> ELSE <<"id">>

\* JSON null, a value that is neither a string nor undefined
JsNull == <<"null">>

\* UUIDSchema.optional()
OptionalUUIDIssues(o, path) ==
  IF IsDefined(o) /\ ~IsUUID(Get(o)) THEN <<path>> ELSE <<>>

\* z.array(UUIDSchema) on a value that is a list
UUIDArrayIssues(list, path) ==
  IF \E i \in 1..Len(list) : ~IsUUID(list[i]) THEN <<path>> ELSE <<>>

\* z.array(UUIDSchema).optional()
OptionalUUIDArrayIssues(o, path) ==
  IF IsDefined(o) THEN UUIDArrayIssues(Get(o), path) ELSE <<>>

IsDigit(c) == \E i \in 1..10 : Lit.HexChars[i] = c

\* DateSchema = z.string().regex(/^\d{4}-\d{2}-\d{2}$/)
IsDate(s) ==
  /\ Len(s) = 10
  /\ \A i \in 1..10 : IF i \in {5, 8} THEN s[i] = "-" ELSE IsDigit(s[i])

\* CreateCustomerRequestSchema (turnover, bypass_RBE and documents_auto_get
\* are given with their declared type or not at all)
CreateCustomerIssues(args) ==
  (IF IsDefined(args.company_number) THEN <<>> ELSE <<"company_number">>)
  \o OptionalUUIDIssues(args.supervisor, "supervisor")
  \o OptionalUUIDArrayIssues(args.contributors, "contributors")
  \o OptionalUUIDIssues(args.firm, "firm")
  \o (IF IsDefined(args.fiscal_year_end_date) /\ ~IsDate(Get(args.fiscal_year_end_date))
      THEN <<"fiscal_year_end_date">> ELSE <<>>)

\* z.boolean().default(true)
DefaultTrue(o) == IF IsDefined(o) THEN o ELSE Some(TRUE)

\* A faulty variant: the two flags have no default.
CreateCustomerDataNoDefault(args) ==
  [company_number |-> args.company_number,
   supervisor |-> args.supervisor, contributors |-> args.contributors,
   firm |-> args.firm, fiscal_year_end_date |-> args.fiscal_year_end_date,
   turnover |-> args.turnover,
   bypass_RBE |-> args.bypass_RBE, documents_auto_get |-> args.documents_auto_get]

\* The value CreateCustomerRequestSchema.parse returns; an undefined field
\* is a key the object does not have (JSON.stringify writes no such key)
CreateCustomerData(args) ==
  [company_number |-> args.company_number,
   supervisor |-> args.supervisor, contributors |-> args.contributors,
   firm |-> args.firm, fiscal_year_end_date |-> args.fiscal_year_end_date,
   turnover |-> args.turnover,
   bypass_RBE |-> DefaultTrue(args.bypass_RBE),
   documents_auto_get |-> DefaultTrue(args.documents_auto_get)]

\* AssignmentRequestSchema
AssignmentIssues(args) ==
  (IF IsDefined(args.customers) THEN UUIDArrayIssues(Get(args.customers), "customers")
   ELSE <<"customers">>)
  \o OptionalUUIDIssues(args.supervisor, "supervisor")
  \o OptionalUUIDArrayIssues(args.contributors, "contributors")
  \o OptionalUUIDIssues(args.firm, "firm")

\* A faulty variant: an empty contributors list is treated as not given.
AssignmentDataDropsEmpty(args) ==
  [customers |-> args.customers, supervisor |-> args.supervisor,
   contributors |-> IF args.contributors = Some(<<>>) THEN Undefined ELSE args.contributors,
   firm |-> args.firm]

\* The value AssignmentRequestSchema.parse returns
AssignmentData(args) ==
  [customers |-> args.customers, supervisor |-> args.supervisor,
   contributors |-> args.contributors, firm |-> args.firm]

UserRoles == {"certified accountant", "controller", "collaborator"}

\* CreateUserRequestSchema, for calls whose firstname, lastname and email are valid
CreateUserIssues(args) ==
  IF IsDefined(args.role) /\ Get(args.role) \in UserRoles THEN <<>> ELSE <<"role">>

handleCustomerTool(name, args) ==
  CASE name = Lit.get_customers ->
         IF PaginationIssues(args) # <<>> THEN Throws(ZodError(PaginationIssues(args)))
         ELSE Calls(getCustomers(args.per_page, args.page))
    [] name = Lit.get_customer ->
         IF IdIssues(args) # <<>> THEN Throws(ZodError(IdIssues(args)))
         ELSE Calls(getCustomer(Get(args.id)))
    [] name = Lit.create_customer ->
         IF CreateCustomerIssues(args) # <<>> THEN Throws(ZodError(CreateCustomerIssues(args)))
         ELSE Calls(createCustomer(CreateCustomerData(args)))
    [] name = Lit.update_customer ->
         IF IdIssues(args) # <<>> THEN Throws(ZodError(IdIssues(args)))
         ELSE Calls(updateCustomer(Get(args.id), [updated |-> {}]))
    [] name = Lit.search_customers ->
         IF PaginationIssues(args) # <<>> THEN Throws(ZodError(PaginationIssues(args)))
         ELSE Calls(searchCustomers(args))
    [] name = Lit.assign_customers ->
         IF AssignmentIssues(args) # <<>> THEN Throws(ZodError(AssignmentIssues(args)))
         ELSE Calls(assignCustomers(AssignmentData(args)))
    [] name = Lit.get_customer_risk_summary ->
         IF IdIssues(args) # <<>> THEN Throws(ZodError(IdIssues(args)))
         ELSE Calls(getCustomerRiskSummary(Get(args.id)))
    [] OTHER -> Throws(Err("Error", Lit.Outil_client_inconnu \o name))

handleUserTool(name, args) ==
  CASE name = Lit.get_users -> Calls(getUsers(args.per_page, args.page))
    [] name = Lit.get_user ->
         IF IdIssues(args) # <<>> THEN Throws(ZodError(IdIssues(args)))
         ELSE Calls(getUser(Get(args.id)))
    [] name = Lit.create_user ->
         IF CreateUserIssues(args) # <<>> THEN Throws(ZodError(CreateUserIssues(args)))
         ELSE Calls(createUser([role |-> Get(args.role)]))
    [] name = Lit.delete_user ->
         IF IdIssues(args) # <<>> THEN Throws(ZodError(IdIssues(args)))
         ELSE Calls(deleteUser(Get(args.id)))
    [] OTHER -> Throws(Err("Error", Lit.Outil_utilisateur_inconnu \o name))

handlePersonTool(name, args) ==
  CASE name = Lit.get_persons -> Calls(getPersons(args.per_page, args.page))
    [] name = Lit.get_person ->
         IF IdIssues(args) # <<>> THEN Throws(ZodError(IdIssues(args)))
         ELSE Calls(getPerson(Get(args.id)))
    [] OTHER -> Throws(Err("Error", Lit.Outil_personne_inconnu \o name))

handleMiscTool(name, args) ==
  CASE name = Lit.get_firms -> Calls(getFirms(args.per_page))
    [] name = Lit.get_structure -> Calls(getStructure)
    [] OTHER -> Throws(Err("Error", Lit.Outil_divers_inconnu \o name))

(***************************************************************************)
(* Dispatcher: routing by prefix / substring, in the fixed group order.    *)
(***************************************************************************)
\* A faulty variant: the customer branch also claims every get_ name.
RouteGetPrefix(name) ==
  IF StartsWith(name, <<"g", "e", "t", "_">>) \/ Includes(name, Lit.customer) THEN "customer"
  ELSE IF Includes(name, Lit.user) THEN "user"
  ELSE IF Includes(name, Lit.person) THEN "person"
  ELSE IF Includes(name, Lit.firm) \/ Includes(name, Lit.structure) THEN "misc"
  ELSE "none"

Route(name) ==
  IF \/ StartsWith(name, Lit.get_customers)
     \/ StartsWith(name, Lit.get_customer)
     \/ StartsWith(name, Lit.create_customer)
     \/ StartsWith(name, Lit.update_customer)
     \/ StartsWith(name, Lit.search_customers)
     \/ StartsWith(name, Lit.assign_customers)
     \/ Includes(name, Lit.customer)
  THEN "customer"
  ELSE IF \/ StartsWith(name, Lit.get_users)
          \/ StartsWith(name, Lit.get_user)
          \/ StartsWith(name, Lit.create_user)
          \/ StartsWith(name, Lit.delete_user)
          \/ Includes(name, Lit.user)
  THEN "user"
  ELSE IF \/ StartsWith(name, Lit.get_persons)
          \/ StartsWith(name, Lit.get_person)
          \/ StartsWith(name, Lit.upload_person)
          \/ Includes(name, Lit.person)
  THEN "person"
  ELSE IF \/ StartsWith(name, Lit.get_firms)
          \/ StartsWith(name, Lit.get_structure)
          \/ StartsWith(name, Lit.download_file)
          \/ Includes(name, Lit.firm)
          \/ Includes(name, Lit.structure)
          \/ Includes(name, Lit.file)
  THEN "misc"
  ELSE "none"

\* The try block of the handler up to the first await on the network
Dispatch(name, args) ==
  CASE Route(name) = "customer" -> handleCustomerTool(name, args)
    [] Route(name) = "user" -> handleUserTool(name, args)
    [] Route(name) = "person" -> handlePersonTool(name, args)
    [] Route(name) = "misc" -> handleMiscTool(name, args)
    [] OTHER -> Throws(McpError("MethodNotFound", "Outil inconnu", name, <<>>))

(***************************************************************************)
(* Dispatcher: the catch block (error normalization).                      *)
(***************************************************************************)
\* A faulty variant: an McpError is not re-thrown first but normalized like any Error.
NormalizeErrorRecoded(error) ==
  IF error.type = "ZodError"
  THEN McpError("InvalidParams", "Erreurs de validation", <<>>, error.issues)
  ELSE IF Includes(error.message, Lit.timeout)
       THEN McpError("InternalError", "Timeout de requete", error.message, <<>>)
       ELSE McpError("InternalError", "Erreur lors de l'execution", error.message, <<>>)

NormalizeError(error) ==
  IF error.type = "McpError" THEN error
  ELSE IF error.type = "ZodError"
  THEN McpError("InvalidParams", "Erreurs de validation", <<>>, error.issues)
  ELSE IF IsError(error)
  THEN IF Includes(error.message, Lit.HTTP_400) \/ Includes(error.message, Lit.Bad_Request)
       THEN McpError("InvalidParams", "Parametres invalides", error.message, <<>>)
       ELSE IF Includes(error.message, Lit.HTTP_401) \/ Includes(error.message, Lit.Unauthorized)
       THEN McpError("InvalidRequest", "Non autorise: Verifiez votre cle API", <<>>, <<>>)
       ELSE IF Includes(error.message, Lit.HTTP_403) \/ Includes(error.message, Lit.Forbidden)
       THEN McpError("InvalidRequest", "Acces refuse", error.message, <<>>)
       ELSE IF Includes(error.message, Lit.HTTP_404) \/ Includes(error.message, Lit.Not_Found)
       THEN McpError("InvalidRequest", "Ressource non trouvee", error.message, <<>>)
       ELSE IF Includes(error.message, Lit.timeout) \/ Includes(error.message, Lit.TIMEOUT)
       THEN McpError("InternalError", "Timeout de requete", error.message, <<>>)
       ELSE McpError("InternalError", "Erreur lors de l'execution", error.message, <<>>)
  ELSE McpError("InternalError", "Erreur inconnue lors de l'execution de l'outil", <<>>, <<>>)

(***************************************************************************)
(* Inputs: the tool calls a caller sends and the answers of the remote     *)
(* API.                                                                    *)
(***************************************************************************)
DeclaredTools ==
  [customer |-> {Lit.get_customers, Lit.get_customer, Lit.create_customer,
                 Lit.update_customer, Lit.search_customers, Lit.assign_customers,
                 Lit.get_customer_risk_summary},
   user     |-> {Lit.get_users, Lit.get_user, Lit.create_user, Lit.delete_user},
   person   |-> {Lit.get_persons, Lit.get_person},
   misc     |-> {Lit.get_firms, Lit.get_structure}]

Groups == {"customer", "user", "person", "misc"}

RegisteredNames == UNION {DeclaredTools[g] : g \in Groups}

UnregisteredNames ==
  {Lit.delete_customer, Lit.get_user_profile, Lit.get_profile, Lit.foo_bar, Lit.ping}

PerPageValues == {Undefined, Some(-1), Some(0), Some(1), Some(100), Some(101)}

PageValues == {Undefined, Some(0), Some(1), Some(2)}

NotUUIDs == {Lit.IdNoHyphens, Lit.IdBadChar, Lit.IdTooLong, Lit.IdShort, <<>>}

\* the ids a reader puts in kanta://customer/{id}/risk-summary
ReadIds == {Lit.IdV4, Lit.IdV1} \cup NotUUIDs

IdValues == {Undefined} \cup {Some(id) : id \in {Lit.IdV4, Lit.IdV1} \cup NotUUIDs}

NoArgs ==
  [per_page |-> Undefined, page |-> Undefined, id |-> Undefined,
   company_number |-> Undefined, company_name |-> Undefined, code |-> Undefined,
   customers |-> Undefined, supervisor |-> Undefined, contributors |-> Undefined,
   firm |-> Undefined, fiscal_year_end_date |-> Undefined, turnover |-> Undefined,
   bypass_RBE |-> Undefined, documents_auto_get |-> Undefined, role |-> Undefined]

\* the search keys a caller gives: none, one, or all three
SearchKeys ==
  {[NoArgs EXCEPT !.company_number = cn, !.company_name = nm, !.code = cd] :
     cn \in {Undefined, Some("552100554")}, nm \in {Undefined, Some("Kanta")},
     cd \in {Undefined, Some("C001")}}

\* the optional fields of create_customer other than the two flags
CreateOptionals ==
  {NoArgs,
   [NoArgs EXCEPT !.supervisor = Some(Lit.IdV4)],
   [NoArgs EXCEPT !.supervisor = Some(Lit.IdShort)],
   [NoArgs EXCEPT !.supervisor = Some(Lit.IdV4), !.contributors = Some(<<Lit.IdV1>>),
                  !.firm = Some(Lit.IdV4), !.fiscal_year_end_date = Some(Lit.Date),
                  !.turnover = Some(1000)]}

OptionalBooleans == {Undefined, Some(TRUE), Some(FALSE)}

ArgsFor(name) ==
  CASE name \in {Lit.get_customers, Lit.get_users, Lit.get_persons} ->
         {[NoArgs EXCEPT !.per_page = pp, !.page = pg] :
            pp \in PerPageValues, pg \in PageValues}
    [] name = Lit.search_customers ->
         {[k EXCEPT !.per_page = pp, !.page = pg] :
            k \in SearchKeys, pp \in PerPageValues \ {Some(0), Some(100)},
            pg \in PageValues \ {Some(2)}}
    [] name = Lit.get_firms ->
         {[NoArgs EXCEPT !.per_page = pp] : pp \in PerPageValues}
    [] name \in {Lit.get_customer, Lit.update_customer, Lit.get_customer_risk_summary,
                 Lit.get_user, Lit.delete_user, Lit.get_person} ->
         {[NoArgs EXCEPT !.id = id] : id \in IdValues}
    [] name = Lit.create_customer ->
         {[o EXCEPT !.company_number = cn, !.bypass_RBE = b, !.documents_auto_get = g] :
            o \in CreateOptionals, cn \in {Undefined, Some("552100554")},
            b \in OptionalBooleans, g \in OptionalBooleans}
    [] name = Lit.assign_customers ->
         {[NoArgs EXCEPT !.customers = cs, !.supervisor = sv, !.contributors = ct,
                         !.firm = fm] :
            cs \in {Undefined, Some(<<>>), Some(<<Lit.IdV4>>), Some(<<Lit.IdV4, Lit.IdShort>>)},
            sv \in {Undefined, Some(Lit.IdV4), Some(JsNull)},
            ct \in {Undefined, Some(<<>>), Some(<<Lit.IdV1>>)},
            fm \in {Undefined, Some(Lit.IdV1), Some(JsNull)}}
    [] name = Lit.create_user ->
         {[NoArgs EXCEPT !.role = r] : r \in {Undefined, Some("controller"), Some("admin")}}
    [] OTHER -> {NoArgs}

Statuses == {200, 201, 400, 401, 403, 404, 500, 503}

BodyTexts ==
  {<<>>, Lit.oops, Lit.Bad_Request, Lit.Unauthorized, Lit.Forbidden, Lit.Not_Found,
   Lit.gateway_timeout, Lit.HTTP_404}

RiskTokens ==
  RiskLevelEnum \cup {Lit.Standard, Lit.Enhanced, Lit.HIGH}

AffectationIds == {JsString(<<"7">>), JsString(Lit.IdV4), JsNumber(42), JsNullValue}

\* a well-formed response of the customer endpoints
CustomerPayload(token, aid) ==
  [url |-> TRUE, object |-> TRUE, pagination |-> TRUE, data |-> TRUE,
   vigilance_level |-> token, affectation_id |-> aid, extra |-> FALSE]

Payloads ==
  {[url |-> u, object |-> o, pagination |-> p, data |-> d,
    vigilance_level |-> Lit.low, affectation_id |-> JsString(<<"7">>),
    extra |-> FALSE] :
     u \in BOOLEAN, o \in BOOLEAN, p \in BOOLEAN, d \in BOOLEAN}
  \cup {[CustomerPayload(Lit.High, JsNumber(42)) EXCEPT !.extra = TRUE]}
  \cup {CustomerPayload(token, JsString(<<"7">>)) : token \in RiskTokens}
  \cup {CustomerPayload(Lit.low, aid) : aid \in AffectationIds}

(***************************************************************************)
(* State.                                                                  *)
(***************************************************************************)
VARIABLES
  client,          \* the KantaClient instance: apiKey, baseUrl, timeout
  isShuttingDown,  \* KantaMCPServer.isShuttingDown
  call,            \* the tool call being handled
  remoteCalls,     \* number of requests the remote API has received
  read,            \* the resource read being handled
  inFlight         \* the tool calls being handled at the same time

vars == <<client, isShuttingDown, call, remoteCalls, read, inFlight>>

NoError == Err("none", <<>>)

\* A faulty variant: the URL is built from the default base URL.
FetchDefaultBase(request) ==
  [request EXCEPT
     !.url = Some([base |-> "https://app.kanta.fr/api/v1", endpoint |-> request.path]),
     !.headers = Some([X_API_Key |-> client.apiKey, Content_Type |-> "application/json"])]

\* makeRequest up to the call of fetch: the headers and `${this.baseUrl}${endpoint}`
Fetch(request) ==
  [request EXCEPT
     !.url = Some([base |-> client.baseUrl, endpoint |-> request.path]),
     !.headers = Some([X_API_Key |-> client.apiKey, Content_Type |-> "application/json"])]

IdleCall ==
  [pc |-> "idle", name |-> <<>>, args |-> NoArgs, admitted |-> FALSE,
   handler |-> "none", requests |-> <<>>, remoteAtStart |-> 0,
   timerArmed |-> FALSE, status |-> 0, errorText |-> <<>>, stage |-> "none",
   kind |-> "none", error |-> NoError, payload |-> Undefined, result |-> Undefined]

\* one of several calls handled at the same time: the call, and the events
\* of its own fetch (the answers of the remote API, its own timer)
IdleInFlight == [call |-> IdleCall, events |-> <<>>]

Event(type, status, text, payload) ==
  [type |-> type, status |-> status, text |-> text, payload |-> payload]

PendingItem(i) == [status |-> "pending", customer_id |-> i, error |-> FALSE]

IdleRead ==
  [pc |-> "idle", uri |-> "", id |-> <<>>, requests |-> <<>>, remoteAtStart |-> 0,
   fetches |-> <<>>, settled |-> <<>>, firms |-> "none", users |-> "none",
   kind |-> "none", error |-> NoError,
   result |-> [total_summaries |-> 0, risk_summaries |-> <<>>,
               total_customers |-> 0, customers |-> 0,
               firms |-> "none", users |-> "none"]]

Init ==
  /\ client \in {KantaClient([apiKey |-> "secret", baseUrl |-> url, timeout |-> Undefined]) :
                   url \in {Undefined, Some("https://stub.test/api")}}
  /\ isShuttingDown = FALSE
  /\ call = IdleCall
  /\ remoteCalls = 0
  /\ read = IdleRead
  /\ inFlight = [i \in 1..MaxInFlight |-> IdleInFlight]

\* A faulty variant: the thrown value leaves the handler as it is.
FailsRaw(c, stage, e) ==
  [c EXCEPT !.pc = "done", !.stage = stage, !.timerArmed = FALSE,
            !.kind = "error", !.error = e]

\* the call ends by throwing e from the try block: the catch block normalizes it
Fails(c, stage, e) ==
  [c EXCEPT !.pc = "done", !.stage = stage, !.timerArmed = FALSE,
            !.kind = "error", !.error = NormalizeError(e)]

(***************************************************************************)
(* CallToolRequestSchema handler, up to the await of fetch.                *)
(***************************************************************************)
\* A faulty variant: the flag is not consulted.
ShutdownGateOpen == FALSE

\* if (this.isShuttingDown)
ShutdownGate == isShuttingDown

CallTool(name, args) ==
  /\ call.pc = "idle"
  /\ read.pc = "idle"
  /\ remoteCalls < MaxRemoteCalls
  /\ LET started == [IdleCall EXCEPT !.name = name, !.args = args,
                                     !.remoteAtStart = remoteCalls]
         d == Dispatch(name, args)
     IN IF ShutdownGate
        THEN /\ call' = [started EXCEPT !.pc = "done", !.stage = "gate", !.kind = "error",
                           !.error = McpError("InternalError", "Server is shutting down",
                                              <<>>, <<>>)]
             /\ UNCHANGED remoteCalls
        ELSE IF ~d.ok
        THEN /\ call' = Fails([started EXCEPT !.admitted = TRUE, !.handler = Route(name)],
                              "local", d.error)
             /\ UNCHANGED remoteCalls
        ELSE /\ call' = [started EXCEPT !.admitted = TRUE, !.handler = Route(name),
                           !.pc = "fetching", !.timerArmed = TRUE,
                           !.requests = <<Fetch(Get(d.request))>>]
             /\ remoteCalls' = remoteCalls + 1
  /\ UNCHANGED <<inFlight, client, isShuttingDown, read>>

(***************************************************************************)
(* KantaClient.makeRequest after fetch was called.                         *)
(***************************************************************************)
\* fetch resolves with the status line and headers: the timer is cleared
ResponseArrives(status) ==
  /\ call.pc = "fetching"
  /\ call' = [call EXCEPT !.pc = "reading", !.status = status, !.timerArmed = FALSE]
  /\ UNCHANGED <<inFlight, client, isShuttingDown, remoteCalls, read>>

\* fetch rejects: the connection failed
FetchFails ==
  /\ call.pc = "fetching"
  /\ call' = Fails(call, "network", Err("TypeError", Lit.fetch_failed))
  /\ UNCHANGED <<inFlight, client, isShuttingDown, remoteCalls, read>>

\* A faulty variant: after the abort the request is issued once more.
TimerFiresRetries ==
  /\ call.pc = "fetching"
  /\ call.timerArmed
  /\ call' = [call EXCEPT !.requests = call.requests \o <<call.requests[1]>>]
  /\ remoteCalls' = remoteCalls + 1
  /\ remoteCalls < MaxRemoteCalls + 1
  /\ UNCHANGED <<inFlight, client, isShuttingDown, read>>

\* setTimeout callback: controller.abort() makes fetch reject with AbortError
TimerFires ==
  /\ call.pc = "fetching"
  /\ call.timerArmed
  /\ call' = Fails(call, "timeout", TimeoutError(client.timeout))
  /\ UNCHANGED <<inFlight, client, isShuttingDown, remoteCalls, read>>

\* !response.ok: await response.text()
ErrorBodyArrives(errorText) ==
  /\ call.pc = "reading"
  /\ ~ResponseOk(call.status)
  /\ call' = Fails([call EXCEPT !.errorText = errorText], "http",
                   HttpError(call.status, errorText))
  /\ UNCHANGED <<inFlight, client, isShuttingDown, remoteCalls, read>>

\* response.ok: await response.json() then schema.parse(data)
JsonBodyArrives(payload) ==
  /\ call.pc = "reading"
  /\ ResponseOk(call.status)
  /\ LET schema == call.requests[1].schema
         issues == SchemaIssues(schema, payload)
         \* only the customer schemas read the customer fields
         seen == IF schema \in CustomerSchemas THEN payload
                 ELSE [payload EXCEPT !.vigilance_level = Lit.low,
                                      !.affectation_id = JsString(<<"7">>),
                                      !.extra = FALSE]
         received == [call EXCEPT !.payload = Some(seen)]
     IN IF issues # <<>>
        THEN call' = Fails(received, "schema", ZodError(issues))
        ELSE call' = [received EXCEPT !.pc = "done", !.stage = "ok", !.kind = "result",
                                      !.result = IF schema \in CustomerSchemas
                                                 THEN Some(ParsedCustomer(payload))
                                                 ELSE Undefined]
  /\ UNCHANGED <<inFlight, client, isShuttingDown, remoteCalls, read>>

\* response.ok but the body is not JSON: response.json() rejects
MalformedBodyArrives ==
  /\ call.pc = "reading"
  /\ ResponseOk(call.status)
  /\ call' = Fails(call, "json", Err("SyntaxError", Lit.Unexpected_token))
  /\ UNCHANGED <<inFlight, client, isShuttingDown, remoteCalls, read>>

\* the result or the McpError has been handed to the protocol layer
Return ==
  /\ call.pc = "done"
  /\ call' = IdleCall
  /\ UNCHANGED <<inFlight, client, isShuttingDown, remoteCalls, read>>

\* KantaMCPServer.shutdown
Shutdown ==
  /\ ~isShuttingDown
  /\ isShuttingDown' = TRUE
  /\ UNCHANGED <<inFlight, client, call, remoteCalls, read>>

(***************************************************************************)
(* ReadResourceRequestSchema handler, kanta://risk-summaries: the customer *)
(* list is fetched, then one risk summary per customer, all at once.       *)
(***************************************************************************)
FailureKinds == {"http", "timeout", "network", "schema"}

\* what makeRequest throws for each way a request can fail
RequestFailure(kind) ==
  CASE kind = "http" -> HttpError(500, Lit.oops)
    [] kind = "timeout" -> TimeoutError(client.timeout)
    [] kind = "network" -> Err("TypeError", Lit.fetch_failed)
    [] kind = "schema" -> ZodError(<<"url">>)

\* The catch block of the handler
NormalizeReadError(error) ==
  IF error.type = "McpError" THEN error
  ELSE IF error.type = "ZodError"
  THEN McpError("InternalError", "Erreur de validation pour la ressource", <<>>, error.issues)
  ELSE IF IsError(error)
  THEN McpError("InternalError", "Erreur lors de la lecture de la ressource",
                error.message, <<>>)
  ELSE McpError("InternalError", "Erreur inconnue lors de la lecture de la ressource",
                <<>>, <<>>)

\* The async callback mapped over customers.data: its own try/catch turns a
\* failed fetch into a returned entry carrying an error text
RiskSummaryItem(i, fetched) ==
  [status |-> "fulfilled", customer_id |-> i, error |-> ~fetched]

\* A faulty variant: an entry carrying an error fails the read.
RiskSummariesStrict(settled) ==
  IF \E i \in 1..Len(settled) : settled[i].error
  THEN [ok |-> FALSE, total_summaries |-> 0, risk_summaries |-> <<>>]
  ELSE [ok |-> TRUE, total_summaries |-> Len(settled), risk_summaries |-> settled]

IsFulfilled(r) == r.status = "fulfilled"

\* Promise.allSettled, the filter on 'fulfilled' and the JSON text
RiskSummaries(settled) ==
  [ok |-> TRUE,
   total_summaries |-> Len(SelectSeq(settled, IsFulfilled)),
   risk_summaries |-> SelectSeq(settled, IsFulfilled)]

ReadFinishes(r, settled) ==
  IF RiskSummaries(settled).ok
  THEN [r EXCEPT !.pc = "done", !.kind = "result", !.settled = settled,
                 !.result = [r.result EXCEPT
                               !.total_summaries = RiskSummaries(settled).total_summaries,
                               !.risk_summaries = RiskSummaries(settled).risk_summaries]]
  ELSE [r EXCEPT !.pc = "done", !.kind = "error", !.settled = settled,
                 !.error = NormalizeReadError(Err("Error", Lit.oops))]

\* uri === 'kanta://risk-summaries': getCustomers({ per_page: 50 }) is awaited
ReadRiskSummaries ==
  /\ read.pc = "idle"
  /\ call.pc = "idle"
  /\ remoteCalls < MaxRemoteCalls
  /\ read' = [IdleRead EXCEPT !.pc = "listing", !.uri = "kanta://risk-summaries",
                              !.remoteAtStart = remoteCalls,
                              !.requests = <<Fetch(getCustomers(Some(50), Undefined))>>]
  /\ remoteCalls' = remoteCalls + 1
  /\ UNCHANGED <<inFlight, client, isShuttingDown, call>>

\* the list arrives with n customers: one getCustomerRiskSummary each
CustomersListed(n) ==
  /\ read.pc = "listing"
  /\ IF n = 0
     THEN read' = ReadFinishes(read, <<>>)
     ELSE read' = [read EXCEPT !.pc = "fanout",
                     !.requests = read.requests
                                    \o [i \in 1..n |-> Fetch(getCustomerRiskSummary(i))],
                     !.fetches = [i \in 1..n |-> "pending"],
                     !.settled = [i \in 1..n |-> PendingItem(i)]]
  /\ remoteCalls' = remoteCalls + n
  /\ UNCHANGED <<inFlight, client, isShuttingDown, call>>

\* the list request fails: the catch block of the handler
CustomerListFails(kind) ==
  /\ read.pc \in {"listing", "roster"}
  /\ read' = [read EXCEPT !.pc = "done", !.kind = "error",
                !.error = NormalizeReadError(RequestFailure(kind))]
  /\ UNCHANGED <<inFlight, client, isShuttingDown, call, remoteCalls>>

\* the risk-summary request of customer i ends (outcome "ok" or a failure);
\* the last one to end lets Promise.allSettled resolve
RiskSummarySettles(i, outcome) ==
  /\ read.pc = "fanout"
  /\ i \in 1..Len(read.fetches)
  /\ read.fetches[i] = "pending"
  /\ LET fetches == [read.fetches EXCEPT ![i] = outcome]
         settled == [read.settled EXCEPT ![i] = RiskSummaryItem(i, outcome = "ok")]
     IN IF \A j \in 1..Len(fetches) : fetches[j] # "pending"
        THEN read' = ReadFinishes([read EXCEPT !.fetches = fetches], settled)
        ELSE read' = [read EXCEPT !.fetches = fetches, !.settled = settled]
  /\ UNCHANGED <<inFlight, client, isShuttingDown, call, remoteCalls>>

(***************************************************************************)
(* kanta://customers/summary: one page of customers is fetched.            *)
(***************************************************************************)
\* the numbers of customers the remote system may hold
RemoteTotals == {0, 2, RosterPageSize, RosterPageSize + 1}

Min(a, b) == IF a < b THEN a ELSE b

\* uri === 'kanta://customers/summary': getCustomers({ per_page: 100 }) is awaited
ReadCustomersSummary ==
  /\ read.pc = "idle"
  /\ call.pc = "idle"
  /\ remoteCalls < MaxRemoteCalls
  /\ read' = [IdleRead EXCEPT !.pc = "roster", !.uri = "kanta://customers/summary",
                              !.remoteAtStart = remoteCalls,
                              !.requests = <<Fetch(getCustomers(Some(RosterPageSize),
                                                                Undefined))>>]
  /\ remoteCalls' = remoteCalls + 1
  /\ UNCHANGED <<inFlight, client, isShuttingDown, call>>

\* customers.data.map(...) and total_customers: customers.total_data
Roster(total, page) == [total_customers |-> total, customers |-> page]

\* the page arrives: the remote system holds total customers and sends at
\* most per_page of them
RosterListed(total) ==
  /\ read.pc = "roster"
  /\ LET page == Min(total, Get(read.requests[1].query.per_page))
     IN read' = [read EXCEPT !.pc = "done", !.kind = "result",
                   !.result = [read.result EXCEPT
                                 !.total_customers = Roster(total, page).total_customers,
                                 !.customers = Roster(total, page).customers]]
  /\ UNCHANGED <<inFlight, client, isShuttingDown, call, remoteCalls>>

(***************************************************************************)
(* kanta://structure/organization: getFirms and getUsers are both called   *)
(* before Promise.all is awaited.                                          *)
(***************************************************************************)
ReadOrganization ==
  /\ read.pc = "idle"
  /\ call.pc = "idle"
  /\ remoteCalls < MaxRemoteCalls
  /\ read' = [IdleRead EXCEPT !.pc = "organization",
                              !.uri = "kanta://structure/organization",
                              !.remoteAtStart = remoteCalls,
                              !.requests = <<Fetch(getFirms(Undefined)),
                                             Fetch(getUsers(Undefined, Undefined))>>,
                              !.firms = "pending", !.users = "pending"]
  /\ remoteCalls' = remoteCalls + 2
  /\ UNCHANGED <<inFlight, client, isShuttingDown, call>>

\* A faulty variant: a failed getUsers rejects.
UsersPromiseUncaught(outcome) ==
  IF outcome = "ok" THEN [status |-> "fulfilled", users |-> "data"]
  ELSE [status |-> "rejected", users |-> "none"]

\* getUsers().catch(() => ({ data: [] }))
UsersPromise(outcome) ==
  [status |-> "fulfilled", users |-> IF outcome = "ok" THEN "data" ELSE "empty"]

\* Promise.all has resolved: the contents are built
OrganizationRead(r, users) ==
  [r EXCEPT !.pc = "done", !.kind = "result",
            !.result = [r.result EXCEPT !.firms = "data", !.users = users]]

\* getFirms settles; its rejection rejects Promise.all at once
FirmsSettles(outcome) ==
  /\ read.pc = "organization"
  /\ read.firms = "pending"
  /\ LET r == [read EXCEPT !.firms = outcome]
     IN IF outcome # "ok"
        THEN read' = [r EXCEPT !.pc = "done", !.kind = "error",
                        !.error = NormalizeReadError(RequestFailure(outcome))]
        ELSE IF read.users = "pending"
        THEN read' = r
        ELSE read' = OrganizationRead(r, UsersPromise(read.users).users)
  /\ UNCHANGED <<inFlight, client, isShuttingDown, call, remoteCalls>>

\* getUsers settles, and with it the promise its catch returns
UsersSettles(outcome) ==
  /\ read.pc = "organization"
  /\ read.users = "pending"
  /\ LET r == [read EXCEPT !.users = outcome]
     IN IF UsersPromise(outcome).status = "rejected"
        THEN read' = [r EXCEPT !.pc = "done", !.kind = "error",
                        !.error = NormalizeReadError(RequestFailure(outcome))]
        ELSE IF read.firms = "pending"
        THEN read' = r
        ELSE read' = OrganizationRead(r, UsersPromise(outcome).users)
  /\ UNCHANGED <<inFlight, client, isShuttingDown, call, remoteCalls>>

(***************************************************************************)
(* kanta://customer/{id}/risk-summary: the id is taken from the URI and    *)
(* tested, then the risk summary and the customer are fetched in turn.     *)
(***************************************************************************)
\* uri.match(/^kanta:\/\/customer\/([^\/]+)\/risk-summary$/) for the URI that
\* has id between the two fixed parts
CustomerRiskMatch(id) ==
  Len(id) > 0 /\ \A i \in 1..Len(id) : id[i] # "/"

\* /^[0-9a-f]{8}-[0-9a-f]{4}-4[0-9a-f]{3}-[89ab][0-9a-f]{3}-[0-9a-f]{12}$/i
ReadIdPattern(id) ==
  /\ Len(id) = 36
  /\ \A i \in 1..36 :
       CASE i \in {9, 14, 19, 24} -> id[i] = "-"
         [] i = 15 -> id[i] = "4"
         [] i = 20 -> id[i] \in {"8", "9", "a", "b", "A", "B"}
         [] OTHER -> IsHex(id[i])

ReadFails(r, e) ==
  [r EXCEPT !.pc = "done", !.kind = "error", !.error = NormalizeReadError(e)]

ReadCustomerRisk(id) ==
  /\ read.pc = "idle"
  /\ call.pc = "idle"
  /\ remoteCalls < MaxRemoteCalls
  /\ LET started == [IdleRead EXCEPT !.uri = "kanta://customer/{id}/risk-summary",
                                     !.id = id, !.remoteAtStart = remoteCalls]
     IN IF ~CustomerRiskMatch(id)
        THEN /\ read' = ReadFails(started, McpError("InvalidRequest", "Resource non trouvee",
                                                    <<>>, <<>>))
             /\ UNCHANGED remoteCalls
        ELSE IF ~ReadIdPattern(id)
        THEN /\ read' = ReadFails(started, McpError("InvalidParams", "ID client invalide",
                                                    id, <<>>))
             /\ UNCHANGED remoteCalls
        ELSE /\ read' = [started EXCEPT !.pc = "risk",
                           !.requests = <<Fetch(getCustomerRiskSummary(id))>>]
             /\ remoteCalls' = remoteCalls + 1
  /\ UNCHANGED <<inFlight, client, isShuttingDown, call>>

\* getCustomerRiskSummary settles; on success getCustomer is called
RiskSummaryFetched(outcome) ==
  /\ read.pc = "risk"
  /\ IF outcome = "ok"
     THEN /\ read' = [read EXCEPT !.pc = "customer",
                        !.requests = read.requests \o <<Fetch(getCustomer(read.id))>>]
          /\ remoteCalls' = remoteCalls + 1
     ELSE /\ read' = ReadFails(read, RequestFailure(outcome))
          /\ UNCHANGED remoteCalls
  /\ UNCHANGED <<inFlight, client, isShuttingDown, call>>

\* getCustomer settles
CustomerFetched(outcome) ==
  /\ read.pc = "customer"
  /\ IF outcome = "ok"
     THEN read' = [read EXCEPT !.pc = "done", !.kind = "result"]
     ELSE read' = ReadFails(read, RequestFailure(outcome))
  /\ UNCHANGED <<inFlight, client, isShuttingDown, call, remoteCalls>>

\* the contents or the McpError have been handed to the protocol layer
ReadReturn ==
  /\ read.pc = "done"
  /\ read' = IdleRead
  /\ UNCHANGED <<inFlight, client, isShuttingDown, call, remoteCalls>>

Next ==
  \/ \E name \in RegisteredNames \cup UnregisteredNames :
       \E args \in ArgsFor(name) : CallTool(name, args)
  \/ \E status \in Statuses : ResponseArrives(status)
  \/ FetchFails
  \/ TimerFires
  \/ \E errorText \in BodyTexts : ErrorBodyArrives(errorText)
  \/ \E payload \in Payloads : JsonBodyArrives(payload)
  \/ MalformedBodyArrives
  \/ Return
  \/ Shutdown
  \/ ReadRiskSummaries
  \/ \E n \in 0..MaxCustomers : CustomersListed(n)
  \/ \E kind \in FailureKinds : CustomerListFails(kind)
  \/ \E i \in 1..MaxCustomers, outcome \in {"ok"} \cup FailureKinds :
       RiskSummarySettles(i, outcome)
  \/ ReadCustomersSummary
  \/ \E total \in RemoteTotals : RosterListed(total)
  \/ ReadOrganization
  \/ \E outcome \in {"ok"} \cup FailureKinds : FirmsSettles(outcome)
  \/ \E outcome \in {"ok"} \cup FailureKinds : UsersSettles(outcome)
  \/ \E id \in ReadIds : ReadCustomerRisk(id)
  \/ \E outcome \in {"ok"} \cup FailureKinds : RiskSummaryFetched(outcome)
  \/ \E outcome \in {"ok"} \cup FailureKinds : CustomerFetched(outcome)
  \/ ReadReturn

Spec == Init /\ [][Next]_vars

(***************************************************************************)
(* Several tool calls at once.  Each invocation of the handler and of      *)
(* makeRequest has its own locals (result, controller, timeoutId); the     *)
(* invocations share the client and the shutdown flag.                     *)
(***************************************************************************)
ConcurrentTools == {Lit.get_customer, Lit.get_users}

ConcurrentArgs(name) ==
  IF name = Lit.get_customer
  THEN {[NoArgs EXCEPT !.id = Some(id)] : id \in {Lit.IdV4, Lit.IdShort}}
  ELSE {NoArgs}

ConcurrentStatuses == {200, 404}

ConcurrentPayloads ==
  {CustomerPayload(Lit.High, JsNumber(42)),
   [CustomerPayload(Lit.low, JsString(<<"7">>)) EXCEPT !.url = FALSE]}

Handled(i, c, events) == [inFlight EXCEPT ![i] = [call |-> c, events |-> events]]

InFlightCallTool(i, name, args) ==
  /\ inFlight[i].call.pc = "idle"
  /\ remoteCalls < MaxConcurrentRemoteCalls
  /\ LET started == [IdleCall EXCEPT !.name = name, !.args = args,
                                     !.remoteAtStart = remoteCalls]
         d == Dispatch(name, args)
     IN IF ShutdownGate
        THEN /\ inFlight' = Handled(i, [started EXCEPT !.pc = "done", !.stage = "gate",
                                          !.kind = "error",
                                          !.error = McpError("InternalError",
                                                             "Server is shutting down",
                                                             <<>>, <<>>)], <<>>)
             /\ UNCHANGED remoteCalls
        ELSE IF ~d.ok
        THEN /\ inFlight' = Handled(i, Fails([started EXCEPT !.admitted = TRUE,
                                                             !.handler = Route(name)],
                                             "local", d.error), <<>>)
             /\ UNCHANGED remoteCalls
        ELSE /\ inFlight' = Handled(i, [started EXCEPT !.admitted = TRUE,
                                          !.handler = Route(name),
                                          !.pc = "fetching", !.timerArmed = TRUE,
                                          !.requests = <<Fetch(Get(d.request))>>], <<>>)
             /\ remoteCalls' = remoteCalls + 1
  /\ UNCHANGED <<client, isShuttingDown, call, read>>

InFlightResponseArrives(i, status) ==
  /\ inFlight[i].call.pc = "fetching"
  /\ inFlight' = Handled(i, [inFlight[i].call EXCEPT !.pc = "reading", !.status = status,
                                                     !.timerArmed = FALSE],
                         inFlight[i].events \o <<Event("status", status, <<>>, Undefined)>>)
  /\ UNCHANGED <<client, isShuttingDown, call, remoteCalls, read>>

InFlightFetchFails(i) ==
  /\ inFlight[i].call.pc = "fetching"
  /\ inFlight' = Handled(i, Fails(inFlight[i].call, "network",
                                  Err("TypeError", Lit.fetch_failed)),
                         inFlight[i].events \o <<Event("network", 0, <<>>, Undefined)>>)
  /\ UNCHANGED <<client, isShuttingDown, call, remoteCalls, read>>

\* A faulty variant: one controller for all calls, so that the timer of a
\* call aborts every fetch that is pending.
InFlightTimerFiresForAll(i) ==
  /\ inFlight[i].call.pc = "fetching"
  /\ inFlight[i].call.timerArmed
  /\ inFlight' =
       [j \in 1..MaxInFlight |->
          IF inFlight[j].call.pc = "fetching"
          THEN [call |-> Fails(inFlight[j].call, "timeout", TimeoutError(client.timeout)),
                events |-> IF j = i
                           THEN inFlight[j].events \o <<Event("timer", 0, <<>>, Undefined)>>
                           ELSE inFlight[j].events]
          ELSE inFlight[j]]
  /\ UNCHANGED <<client, isShuttingDown, call, remoteCalls, read>>

\* the timer of call i aborts the controller of call i
InFlightTimerFires(i) ==
  /\ inFlight[i].call.pc = "fetching"
  /\ inFlight[i].call.timerArmed
  /\ inFlight' = Handled(i, Fails(inFlight[i].call, "timeout", TimeoutError(client.timeout)),
                         inFlight[i].events \o <<Event("timer", 0, <<>>, Undefined)>>)
  /\ UNCHANGED <<client, isShuttingDown, call, remoteCalls, read>>

InFlightErrorBodyArrives(i, errorText) ==
  /\ inFlight[i].call.pc = "reading"
  /\ ~ResponseOk(inFlight[i].call.status)
  /\ inFlight' = Handled(i, Fails([inFlight[i].call EXCEPT !.errorText = errorText], "http",
                                  HttpError(inFlight[i].call.status, errorText)),
                         inFlight[i].events \o <<Event("text", 0, errorText, Undefined)>>)
  /\ UNCHANGED <<client, isShuttingDown, call, remoteCalls, read>>

InFlightJsonBodyArrives(i, payload) ==
  /\ inFlight[i].call.pc = "reading"
  /\ ResponseOk(inFlight[i].call.status)
  /\ LET c == inFlight[i].call
         schema == c.requests[1].schema
         issues == SchemaIssues(schema, payload)
         received == [c EXCEPT !.payload = Some(payload)]
         events == inFlight[i].events \o <<Event("json", 0, <<>>, Some(payload))>>
     IN IF issues # <<>>
        THEN inFlight' = Handled(i, Fails(received, "schema", ZodError(issues)), events)
        ELSE inFlight' = Handled(i, [received EXCEPT !.pc = "done", !.stage = "ok",
                                       !.kind = "result",
                                       !.result = IF schema \in CustomerSchemas
                                                  THEN Some(ParsedCustomer(payload))
                                                  ELSE Undefined], events)
  /\ UNCHANGED <<client, isShuttingDown, call, remoteCalls, read>>

InFlightMalformedBodyArrives(i) ==
  /\ inFlight[i].call.pc = "reading"
  /\ ResponseOk(inFlight[i].call.status)
  /\ inFlight' = Handled(i, Fails(inFlight[i].call, "json",
                                  Err("SyntaxError", Lit.Unexpected_token)),
                         inFlight[i].events \o <<Event("malformed", 0, <<>>, Undefined)>>)
  /\ UNCHANGED <<client, isShuttingDown, call, remoteCalls, read>>

InFlightReturn(i) ==
  /\ inFlight[i].call.pc = "done"
  /\ inFlight' = [inFlight EXCEPT ![i] = IdleInFlight]
  /\ UNCHANGED <<client, isShuttingDown, call, remoteCalls, read>>

ConcurrentNext ==
  \/ \E i \in 1..MaxInFlight, name \in ConcurrentTools :
       \E args \in ConcurrentArgs(name) : InFlightCallTool(i, name, args)
  \/ \E i \in 1..MaxInFlight, status \in ConcurrentStatuses : InFlightResponseArrives(i, status)
  \/ \E i \in 1..MaxInFlight : InFlightFetchFails(i)
  \/ \E i \in 1..MaxInFlight : InFlightTimerFires(i)
  \/ \E i \in 1..MaxInFlight : InFlightErrorBodyArrives(i, Lit.oops)
  \/ \E i \in 1..MaxInFlight, payload \in ConcurrentPayloads :
       InFlightJsonBodyArrives(i, payload)
  \/ \E i \in 1..MaxInFlight : InFlightMalformedBodyArrives(i)
  \/ \E i \in 1..MaxInFlight : InFlightReturn(i)
  \/ Shutdown

ConcurrentSpec == Init /\ [][ConcurrentNext]_vars

\* the callback given to setTimeout runs once its delay has passed, unless
\* clearTimeout came first; nothing is assumed of the remote API
LiveSpec == Spec /\ WF_vars(TimerFires)

(***************************************************************************)
(* Properties.  A call is admitted when it passed the shutdown gate, so    *)
(* that routing, the handler and the error normalization apply to it.      *)
(***************************************************************************)
OutOfBounds(args) ==
  \/ IsDefined(args.per_page) /\ Get(args.per_page) \notin 1..100
  \/ IsDefined(args.page) /\ Get(args.page) < 1

NoNetwork == call.requests = <<>> /\ remoteCalls = call.remoteAtStart

RejectedWith(code) ==
  call.pc = "done" /\ call.kind = "error" /\ call.error.type = "McpError"
  /\ call.error.code = code

\* C1: an admitted get_customers or search_customers call whose per_page is
\* outside [1,100] or whose page is below 1 ends with an InvalidParams error
\* and has issued no network request.
C1_CustomerPaginationRejected ==
  (call.admitted /\ call.name \in {Lit.get_customers, Lit.search_customers}
     /\ OutOfBounds(call.args))
  => (RejectedWith("InvalidParams") /\ NoNetwork)

C1_Witness ==
  /\ call.admitted /\ call.name = Lit.search_customers
  /\ call.args.per_page = Some(101) /\ call.args.page = Some(1)
  /\ RejectedWith("InvalidParams") /\ NoNetwork

\* C2: an admitted get_users, get_persons or get_firms call whose per_page is
\* outside [1,100] or whose page is below 1 ends with an InvalidParams error
\* and has issued no network request.
C2_ListPaginationRejected ==
  (call.admitted /\ call.name \in {Lit.get_users, Lit.get_persons, Lit.get_firms}
     /\ OutOfBounds(call.args))
  => (RejectedWith("InvalidParams") /\ NoNetwork)

IdTools ==
  {Lit.get_customer, Lit.update_customer, Lit.get_customer_risk_summary,
   Lit.get_user, Lit.delete_user, Lit.get_person}

\* C3: an admitted call of an operation that takes an id, whose id is not a
\* UUID, ends with an InvalidParams error and has issued no network request.
C3_NonUUIDRejected ==
  (call.admitted /\ call.name \in IdTools
     /\ IsDefined(call.args.id) /\ Get(call.args.id) \in NotUUIDs)
  => (RejectedWith("InvalidParams") /\ NoNetwork)

C3_Witness ==
  /\ call.admitted /\ call.name = Lit.delete_user
  /\ call.args.id = Some(Lit.IdBadChar)
  /\ RejectedWith("InvalidParams") /\ NoNetwork

StatusLabel ==
  [s \in {400, 401, 403, 404} |->
     CASE s = 400 -> "Parametres invalides"
       [] s = 401 -> "Non autorise: Verifiez votre cle API"
       [] s = 403 -> "Acces refuse"
       [] s = 404 -> "Ressource non trouvee"]

\* C4: when the remote API answers 400, 401, 403 or 404, the error of the
\* call is the one of that status (invalid parameters, unauthorized,
\* forbidden, not found), whatever the body text.
C4_StatusDecidesCategory ==
  (call.pc = "done" /\ call.stage = "http" /\ call.status \in {400, 401, 403, 404})
  => (call.kind = "error" /\ call.error.label = StatusLabel[call.status])

\* C5: when the remote API answers another non-2xx status, the error of the
\* call is the generic execution error and its message is the status and
\* the raw body text, whatever the body text.
C5_OtherStatusGeneric ==
  (call.pc = "done" /\ call.stage = "http" /\ call.status \notin {400, 401, 403, 404})
  => /\ call.kind = "error"
     /\ call.error.code = "InternalError"
     /\ call.error.label = "Erreur lors de l'execution"
     /\ call.error.message
          = Lit.HTTP_ \o NatToString(call.status) \o Lit.ColonSp \o call.errorText

\* C6: the timer is armed only while fetch is pending; when it fires the
\* call ends with the timeout error (code InternalError, "Timeout de
\* requete"), not the generic execution error, its message is "Request
\* timeout after 30000ms", which no transport failure ("HTTP ...") produces.
C6_TimeoutReported ==
  /\ call.timerArmed => call.pc = "fetching"
  /\ call.stage = "timeout"
     => /\ RejectedWith("InternalError")
        /\ call.error.label = "Timeout de requete"
        /\ call.error.label # "Erreur lors de l'execution"
        /\ call.error.message
             = Lit.Request_timeout_after_ \o <<"3", "0", "0", "0", "0">> \o Lit.ms
        /\ ~StartsWith(call.error.message, Lit.HTTP_)
        /\ call.status = 0

C6_Witness ==
  /\ call.stage = "timeout" /\ call.pc = "done" /\ Len(call.requests) = 1
  /\ call.error.label = "Timeout de requete"

\* what the dispatcher reports for a local argument-validation failure
LocalValidationFailure == NormalizeError(Dispatch(Lit.get_customer, NoArgs).error)

\* C7: a 2xx answer whose body does not match the response schema is
\* reported with a code or message class different from the one of a local
\* argument-validation failure.
C7_UpstreamMismatchDistinct ==
  (call.pc = "done" /\ call.stage = "schema")
  => <<call.error.code, call.error.label>>
       # <<LocalValidationFailure.code, LocalValidationFailure.label>>

\* C8: every declared tool name is handled by the group that declares it;
\* get_customer is never handled by the user, person or firm group.
C8_DeclaredToolsRouted ==
  /\ \A g \in Groups :
       (call.admitted /\ call.name \in DeclaredTools[g]) => call.handler = g
  /\ (call.admitted /\ call.name = Lit.get_customer)
       => call.handler \notin {"user", "person", "misc"}

C8_Witness ==
  /\ call.admitted /\ call.name = Lit.get_users /\ call.handler = "user"
  /\ call.pc = "fetching"

\* C9: every admitted call whose tool name is not a registered operation
\* ends with the MethodNotFound error.
C9_UnregisteredUnknown ==
  (call.admitted /\ call.name \notin RegisteredNames) => RejectedWith("MethodNotFound")

GroupMarkers ==
  {Lit.customer, Lit.user, Lit.person, Lit.firm, Lit.structure, Lit.file}

\* C10: an admitted call whose name contains none of the group markers (so
\* that no prefix or substring pattern matches) ends with exactly the
\* McpError MethodNotFound "Outil inconnu: <name>" thrown by the routing,
\* no handler was invoked and no network request was issued.
C10_UnmatchedNameUnknown ==
  (call.admitted /\ \A m \in GroupMarkers : ~Includes(call.name, m))
  => /\ call.pc = "done" /\ call.kind = "error"
     /\ call.error = McpError("MethodNotFound", "Outil inconnu", call.name, <<>>)
     /\ call.handler = "none"
     /\ NoNetwork

C10_Witness ==
  /\ call.admitted /\ call.name = Lit.foo_bar /\ call.handler = "none"
  /\ RejectedWith("MethodNotFound") /\ NoNetwork

\* C11: once isShuttingDown is set it stays set, and every tool call that
\* arrives while it is set ends at once with the McpError "Server is shutting
\* down", is handed to no handler and issues no network request.
C11_ShutdownRejectsCalls ==
  [][isShuttingDown =>
       /\ isShuttingDown'
       /\ (call.pc = "idle" /\ call'.pc # "idle")
            => /\ call'.pc = "done" /\ call'.kind = "error"
               /\ call'.error = McpError("InternalError", "Server is shutting down",
                                          <<>>, <<>>)
               /\ ~call'.admitted /\ call'.handler = "none"
               /\ call'.requests = <<>> /\ remoteCalls' = remoteCalls]_vars

C11_Witness ==
  /\ isShuttingDown /\ call.pc = "done" /\ call.stage = "gate"
  /\ call.name = Lit.get_customers /\ call.requests = <<>>
  /\ call.error.label = "Server is shutting down"

FailedFetches == {i \in 1..Len(read.fetches) : read.fetches[i] # "ok"}

SucceededFetches == {i \in 1..Len(read.fetches) : read.fetches[i] = "ok"}

RiskSummariesRead == read.uri = "kanta://risk-summaries"

\* C12: when the risk-summaries read ends with a result for N listed
\* customers of which k fetches failed, the result lists exactly the N-k
\* customers whose fetch succeeded and total_summaries is N-k.
C12_OnlySuccessfulListed ==
  (RiskSummariesRead /\ read.pc = "done" /\ read.kind = "result")
  => /\ read.result.total_summaries = Len(read.fetches) - Cardinality(FailedFetches)
     /\ Len(read.result.risk_summaries) = Len(read.fetches) - Cardinality(FailedFetches)
     /\ {read.result.risk_summaries[j].customer_id :
           j \in 1..Len(read.result.risk_summaries)} = SucceededFetches

\* C13: once the customer list has been fetched, the risk-summaries read
\* never ends with an error, whichever per-customer fetches fail; when all
\* fetches have ended it has returned a result.
C13_ItemFailuresNeverFailRead ==
  (RiskSummariesRead /\ (read.pc = "fanout" \/ (read.pc = "done" /\ read.fetches # <<>>)))
  => /\ read.kind # "error"
     /\ (\A i \in 1..Len(read.fetches) : read.fetches[i] # "pending")
          => (read.pc = "done" /\ read.kind = "result")

C13_Witness ==
  /\ RiskSummariesRead /\ read.pc = "done" /\ read.kind = "result"
  /\ Len(read.fetches) = MaxCustomers
  /\ \A i \in 1..Len(read.fetches) : read.fetches[i] \in FailureKinds

AssignCall == call.admitted /\ call.name = Lit.assign_customers

\* the bodies of the requests the current call has issued
Bodies == {Get(call.requests[i].body) : i \in {j \in 1..Len(call.requests) :
                                                IsDefined(call.requests[j].body)}}

\* C14: every request body of an admitted assign_customers call has a
\* supervisor key only if the caller gave supervisor, and when the caller
\* gave contributors as an empty list the body has the contributors key with
\* an empty list.
C14_AssignmentBodyKeys ==
  AssignCall
  => \A b \in Bodies :
       /\ IsDefined(b.supervisor) => IsDefined(call.args.supervisor)
       /\ (call.args.contributors = Some(<<>>)) => (b.contributors = Some(<<>>))

C14_Witness ==
  /\ AssignCall /\ call.args.supervisor = Undefined
  /\ call.args.contributors = Some(<<>>)
  /\ \E b \in Bodies : b.supervisor = Undefined /\ b.contributors = Some(<<>>)
                         /\ b.customers = Some(<<Lit.IdV4>>)

\* C15: an admitted assign_customers call with well-formed customers whose
\* supervisor or firm is null is accepted: it issues a request whose body
\* carries that null.
C15_NullForwarded ==
  (AssignCall /\ call.args.customers = Some(<<Lit.IdV4>>)
     /\ (call.args.supervisor = Some(JsNull) \/ call.args.firm = Some(JsNull)))
  => /\ ~RejectedWith("InvalidParams")
     /\ \E b \in Bodies : b.supervisor = call.args.supervisor /\ b.firm = call.args.firm

\* C16: an admitted assign_customers call with an empty customers list ends
\* with an InvalidParams error and has issued no network request.
C16_EmptyCustomersRejected ==
  (AssignCall /\ call.args.customers = Some(<<>>))
  => (RejectedWith("InvalidParams") /\ NoNetwork)

NoSearchKey(args) ==
  args.company_number = Undefined /\ args.company_name = Undefined /\ args.code = Undefined

\* C17: an admitted search_customers call that gives none of company_number,
\* company_name and code ends with an InvalidParams error and has issued no
\* network request.
C17_SearchNeedsKey ==
  (call.admitted /\ call.name = Lit.search_customers /\ NoSearchKey(call.args))
  => (RejectedWith("InvalidParams") /\ NoNetwork)

\* C18: every request body of an admitted create_customer call has
\* bypass_RBE and documents_auto_get, each the caller's value when given and
\* true otherwise, and has none of supervisor, contributors, firm,
\* fiscal_year_end_date, turnover that the caller did not give.
C18_CreateBodyDefaults ==
  (call.admitted /\ call.name = Lit.create_customer)
  => \A b \in Bodies :
       /\ b.bypass_RBE = (IF call.args.bypass_RBE = Undefined THEN <<TRUE>>
                          ELSE call.args.bypass_RBE)
       /\ b.documents_auto_get = (IF call.args.documents_auto_get = Undefined THEN <<TRUE>>
                                  ELSE call.args.documents_auto_get)
       /\ call.args.supervisor = Undefined => b.supervisor = Undefined
       /\ call.args.contributors = Undefined => b.contributors = Undefined
       /\ call.args.firm = Undefined => b.firm = Undefined
       /\ call.args.fiscal_year_end_date = Undefined => b.fiscal_year_end_date = Undefined
       /\ call.args.turnover = Undefined => b.turnover = Undefined

C18_Witness ==
  /\ call.admitted /\ call.name = Lit.create_customer
  /\ call.args.bypass_RBE = Undefined /\ call.args.documents_auto_get = Some(FALSE)
  /\ call.args.supervisor = Undefined
  /\ \E b \in Bodies : /\ b.bypass_RBE = <<TRUE>> /\ b.documents_auto_get = <<FALSE>>
                         /\ b.supervisor = Undefined

CanonicalRiskLevels ==
  {Lit.low, Lit.medium, Lit.high, Lit.not_established, Lit.standard, Lit.enhanced}

\* a customer response has been read and validated, with or without success
CustomerValidated ==
  /\ call.pc = "done" /\ call.stage \in {"ok", "schema"}
  /\ call.requests[1].schema \in CustomerSchemas
  /\ Get(call.payload).url /\ Get(call.payload).object
  /\ Get(call.payload).pagination /\ Get(call.payload).data

\* C19: a customer response whose vigilance level is a canonical token,
\* "High" or "Enhanced" and whose other fields are well-formed passes
\* validation, and every vigilance level that has passed validation is in
\* the canonical lowercase set; "High" comes out as "high" and "Enhanced" as
\* "enhanced".
C19_RiskLevelNormalized ==
  CustomerValidated
  => LET token == Get(call.payload).vigilance_level
     IN /\ (token \in CanonicalRiskLevels \cup {Lit.High, Lit.Enhanced}
              /\ Get(call.payload).affectation_id.type # "null")
             => call.kind = "result"
        /\ call.kind = "result"
             => /\ Get(call.result).vigilance_level \in CanonicalRiskLevels
                /\ token = Lit.High => Get(call.result).vigilance_level = Lit.high
                /\ token = Lit.Enhanced => Get(call.result).vigilance_level = Lit.enhanced

\* the arguments that give exactly the fields of a create_customer body
AsArgs(b) ==
  [NoArgs EXCEPT !.company_number = b.company_number, !.supervisor = b.supervisor,
                 !.contributors = b.contributors, !.firm = b.firm,
                 !.fiscal_year_end_date = b.fiscal_year_end_date,
                 !.turnover = b.turnover, !.bypass_RBE = b.bypass_RBE,
                 !.documents_auto_get = b.documents_auto_get]

\* C20: validating a validated value again succeeds and changes nothing:
\* the vigilance level and the affectation id of a validated customer
\* response, and the body of a create_customer request.
C20_ValidationIdempotent ==
  /\ (CustomerValidated /\ call.kind = "result")
      => LET out == Get(call.result)
             again == CustomerPayload(out.vigilance_level, JsString(out.affectation_id))
         IN /\ SchemaIssues(call.requests[1].schema, again) = <<>>
            /\ ParsedCustomer(again) = out
  /\ (call.admitted /\ call.name = Lit.create_customer)
      => \A b \in Bodies :
           /\ CreateCustomerIssues(AsArgs(b)) = <<>>
           /\ CreateCustomerData(AsArgs(b)) = b

C20_Witness ==
  /\ CustomerValidated /\ call.kind = "result"
  /\ call.name = Lit.create_customer
  /\ call.args.bypass_RBE = Undefined
  /\ \E b \in Bodies : b.bypass_RBE = <<TRUE>>
  /\ Get(call.payload).vigilance_level = Lit.Medium
  /\ Get(call.result).vigilance_level = Lit.medium

ErrorCodes == {"InvalidParams", "InvalidRequest", "MethodNotFound", "InternalError"}

\* C21: a tool call that has ended has either a result and no error, or an
\* McpError with an error code and a message; it never ends with a ZodError,
\* a TypeError, a SyntaxError or a plain Error.
C21_ResultOrMcpError ==
  call.pc = "done"
  => \/ call.kind = "result" /\ call.error = NoError
     \/ /\ call.kind = "error"
        /\ call.error.type = "McpError"
        /\ call.error.code \in ErrorCodes
        /\ call.error.label # ""

C21_Witness ==
  /\ call.pc = "done" /\ call.stage = "json" /\ call.kind = "error"
  /\ call.error.type = "McpError" /\ call.error.code = "InternalError"

\* C22: a tool call in progress or ended has issued at most one network
\* request, and no step taken after the request was issued, whatever the
\* answer, issues another one.
C22_AtMostOneRequest ==
  call.pc # "idle"
  => /\ Len(call.requests) <= 1
     /\ remoteCalls - call.remoteAtStart = Len(call.requests)

C22_Witness ==
  /\ call.pc = "done" /\ call.stage = "timeout"
  /\ Len(call.requests) = 1 /\ remoteCalls = call.remoteAtStart + 1

CustomerRiskRead ==
  read.uri = "kanta://customer/{id}/risk-summary" /\ read.pc # "idle"

ReadRejectedWith(code) ==
  read.pc = "done" /\ read.kind = "error" /\ read.error.type = "McpError"
  /\ read.error.code = code

ReadNoNetwork == read.requests = <<>> /\ remoteCalls = read.remoteAtStart

\* C23: a read of kanta://customer/{id}/risk-summary whose id is not a UUID
\* ends with an InvalidParams error and has issued no network request, and
\* the read accepts exactly the ids the id argument of
\* get_customer_risk_summary accepts: with such an id it is not rejected
\* for its id.
C23_ReadIdSameAsToolId ==
  (CustomerRiskRead /\ read.id # <<>>)
  => /\ Dispatch(Lit.get_customer_risk_summary, [NoArgs EXCEPT !.id = Some(read.id)]).ok
          => ~(ReadRejectedWith("InvalidParams") /\ ReadNoNetwork)
     /\ ~Dispatch(Lit.get_customer_risk_summary, [NoArgs EXCEPT !.id = Some(read.id)]).ok
          => (ReadRejectedWith("InvalidParams") /\ ReadNoNetwork)

\* every request of the sequence has the credential as X-API-Key and a URL
\* that starts with the base URL
Carry(requests, credential, baseUrl) ==
  \A i \in 1..Len(requests) :
    /\ IsDefined(requests[i].headers) /\ IsDefined(requests[i].url)
    /\ Get(requests[i].headers).X_API_Key = credential
    /\ Get(requests[i].url).base = baseUrl

\* C24: no step changes the client's credential or base URL, and every
\* request a tool call or a resource read has issued has the credential as
\* its X-API-Key header and a URL that starts with the base URL.
C24_CredentialAndBaseUrlFixed ==
  [][/\ client'.apiKey = client.apiKey
     /\ client'.baseUrl = client.baseUrl
     /\ Carry(call'.requests, client.apiKey, client.baseUrl)
     /\ Carry(read'.requests, client.apiKey, client.baseUrl)]_vars

C24_Witness ==
  /\ client.baseUrl = "https://stub.test/api"
  /\ read.pc = "customer" /\ Len(read.requests) = 2
  /\ Get(read.requests[2].url).base = "https://stub.test/api"
  /\ Get(read.requests[2].headers).X_API_Key = "secret"

\* C25: a validated customer response that carried a key the schema does
\* not declare either has that key in the validated value or has failed
\* validation.
C25_UnknownFieldKept ==
  (CustomerValidated /\ Get(call.payload).extra)
  => (call.kind = "error" \/ Get(call.result).extra)

\* C27: once the shutdown flag is set no step starts a network request, be
\* it the first step of a tool call or of a resource read or a later step of
\* a request already in progress.
C27_NoRequestAfterShutdown ==
  [][isShuttingDown => remoteCalls' = remoteCalls]_vars

OrganizationReadStarted == read.uri = "kanta://structure/organization" /\ read.pc # "idle"

\* C29: the organization read has issued the firms and the users request
\* before either has settled; when the firms fetch has failed the read has
\* ended with an InternalError, whatever the users fetch did; when the firms
\* fetch has succeeded and the users fetch has settled the read has ended
\* with the firms and with the users, or an empty users list if the users
\* fetch failed.
C29_UsersFailureDegrades ==
  OrganizationReadStarted
  => /\ Len(read.requests) = 2 /\ remoteCalls = read.remoteAtStart + 2
     /\ read.firms \in FailureKinds => ReadRejectedWith("InternalError")
     /\ (read.firms = "ok" /\ read.users # "pending")
          => /\ read.pc = "done" /\ read.kind = "result"
             /\ read.result.firms = "data"
             /\ read.result.users = (IF read.users = "ok" THEN "data" ELSE "empty")
     /\ read.pc = "done" => (read.firms \in FailureKinds
                               \/ (read.firms = "ok" /\ read.users # "pending"))

C29_Witness ==
  /\ OrganizationReadStarted /\ read.pc = "done" /\ read.kind = "result"
  /\ read.firms = "ok" /\ read.users = "timeout"
  /\ read.result.firms = "data" /\ read.result.users = "empty"

\* C30: a customers summary lists as many customers as the remote system
\* reports in total_data, and a risk-summaries result has one entry for
\* every customer of the list it was given.
C30_EveryCustomerListed ==
  (read.pc = "done" /\ read.kind = "result")
  => /\ read.uri = "kanta://customers/summary"
          => read.result.customers = read.result.total_customers
     /\ read.uri = "kanta://risk-summaries"
          => Len(read.result.risk_summaries) = Len(read.fetches)

\* C28: a remote call that has been started, whether fetch is still pending
\* or the status line has arrived and the body is being read, eventually
\* ends with a result or an error.
C28_RemoteCallEnds ==
  (call.pc \in {"fetching", "reading"}) ~> (call.pc = "done")

Ended(kind, error, result) == [kind |-> kind, error |-> error, result |-> result]

Thrown(e) == Ended("error", NormalizeError(e), Undefined)

\* what the handler returns or throws for one call handled with no other
\* call in progress: name and args, whether it passed the shutdown gate, and
\* the events of its fetch in order
Alone(name, args, admitted, events) ==
  LET d == Dispatch(name, args)
      schema == Get(d.request).schema
  IN IF ~admitted
     THEN Ended("error", McpError("InternalError", "Server is shutting down", <<>>, <<>>),
                Undefined)
     ELSE IF ~d.ok THEN Thrown(d.error)
     ELSE IF events = <<>> THEN Ended("none", NoError, Undefined)
     ELSE IF events[1].type = "network" THEN Thrown(Err("TypeError", Lit.fetch_failed))
     ELSE IF events[1].type = "timer"
     THEN Thrown(Err("Error", Lit.Request_timeout_after_ \o NatToString(client.timeout)
                                \o Lit.ms))
     ELSE IF Len(events) < 2 THEN Ended("none", NoError, Undefined)
     ELSE IF events[2].type = "text"
     THEN Thrown(HttpError(events[1].status, events[2].text))
     ELSE IF events[2].type = "malformed"
     THEN Thrown(Err("SyntaxError", Lit.Unexpected_token))
     ELSE IF SchemaIssues(schema, Get(events[2].payload)) # <<>>
     THEN Thrown(ZodError(SchemaIssues(schema, Get(events[2].payload))))
     ELSE Ended("result", NoError,
                IF schema \in CustomerSchemas
                THEN Some(ParsedCustomer(Get(events[2].payload))) ELSE Undefined)

\* C26: whatever the interleaving of the steps of the calls in progress,
\* each call that has ended has the result or the error it would have if it
\* were handled alone with the same events of its own fetch, and a call
\* that has not ended has none; in particular a call whose own timer has not
\* fired has no timeout error.
C26_ConcurrentCallsIndependent ==
  \A i \in 1..MaxInFlight :
    LET c == inFlight[i].call
    IN c.pc # "idle"
       => /\ Ended(c.kind, c.error, c.result)
              = Alone(c.name, c.args, c.admitted, inFlight[i].events)
          /\ c.pc = "done" <=> c.kind # "none"

C26_Witness ==
  /\ inFlight[1].call.pc = "done" /\ inFlight[1].call.stage = "timeout"
  /\ inFlight[2].call.pc = "done" /\ inFlight[2].call.kind = "result"
  /\ inFlight[2].call.name = Lit.get_customer
  /\ inFlight[2].call.remoteAtStart = inFlight[1].call.remoteAtStart + 1

====
